---- MODULE Spec2Model ----
(***************************************************************************)
(* Control-plane state store of vibe-board (Convex mutations and queries   *)
(* under packages/backend/convex).  Every mutation is one transaction: it  *)
(* is one atomic action here, and a mutation that throws leaves every      *)
(* table as it was.  Document ids are positions in the table (Convex never *)
(* deletes a document in these files).  Optional fields are <<>> when      *)
(* absent and <<v>> when present; ctx.db.patch with an undefined value     *)
(* removes the field.  The bookkeeping stamps createdAt, updatedAt,        *)
(* lastUsedAt, consumedAt and discardedAt, the session titles, repository  *)
(* names and target branches, and the organization and project of a        *)
(* workspace are not part of the model.                                    *)
(***************************************************************************)
EXTENDS Integers, Sequences, FiniteSets, TLC

\* ------------------------------------------------------------------ bounds
MaxExecutions == 1
MaxSessionExecutions == 2
MaxApprovals == 2
MaxQueued == 2
MaxClock == 1
MaxRepoStates == 2
MaxWorkspaces == 3
\* Sessions in the store.
MaxSessions == 3

\* ------------------------------------------------------------ value sets
Undefined == <<>>
Some(v) == <<v>>

ExecutionStatus == {"pending", "running", "completed", "failed", "killed", "dropped"}
SessionStatus == {"running", "idle", "needs_attention", "error"}
QueueState == {"queued", "consumed", "discarded"}
ApprovalStatus == {"pending", "approved", "rejected", "expired", "cancelled"}

RunReasonInputs == {"coding_agent"}
ErrorMessageInputs == {Undefined, Some("boom")}
ResponseInputs == {"approved", "rejected"}
RespondedByInputs == {"user"}
ApprovalKindInputs == {"dangerous_write"}
PromptInputs == {"overwrite file?"}
\* Arguments of enqueueFollowUp: message, executor, variant, enqueueingProcessId.
FollowUpInputs ==
    { [message |-> "also update README", executor |-> Undefined,
       variant |-> Undefined, enqueueingProcessId |-> Undefined],
      [message |-> "and bump version", executor |-> Some("claude"),
       variant |-> Some("plan"), enqueueingProcessId |-> Some(1)] }

\* Arguments of upsertExecutionRepoState: the head commit before the run,
\* the head commit and the repository state after it, a later correction of
\* the commit before the run.
RepoStateInputs ==
    { [beforeHeadCommit |-> Some("c0"), afterHeadCommit |-> Undefined,
       repoState |-> Undefined],
      [beforeHeadCommit |-> Undefined, afterHeadCommit |-> Some("c1"),
       repoState |-> Some("dirty")],
      [beforeHeadCommit |-> Some("c2"), afterHeadCommit |-> Undefined,
       repoState |-> Undefined] }

\* The repos argument of createWorkspace: none, one repository, two
\* repositories of which the second is disabled and given a sort order.
WorkspaceReposInputs ==
    { <<>>,
      << [repoId |-> "api", enabled |-> Undefined, sortOrder |-> Undefined] >>,
      << [repoId |-> "api", enabled |-> Undefined, sortOrder |-> Undefined],
         [repoId |-> "web", enabled |-> Some(FALSE), sortOrder |-> Some(5)] >> }
\* The limit argument of listExecutionProcessesBySession.
LimitInputs == {Undefined, Some(0), Some(1), Some(2)}
\* The optional deadline of an approval.
ExpiresAtInputs == {Undefined, Some(0)}
\* The callers of createWorkspace and listWorkspacesByOwner.
OwnerInputs == {"alice", "bob"}
\* The optional arguments of updateWorkspace: name, status, activeSessionId
\* and activeWorkspaceRepoId.
NameInputs == {Undefined, Some("renamed")}
StatusInputs == {Undefined, Some("error")}
PointerInputs == {Undefined, Some(2)}
\* An optional boolean argument.
OptionalFlagInputs == {Undefined, Some(TRUE), Some(FALSE)}

VARIABLES workspaces, workspaceRepos, sessions, executionProcesses,
          executionProcessRepoStates, approvals, queuedMessages, now

vars == <<workspaces, workspaceRepos, sessions, executionProcesses,
          executionProcessRepoStates, approvals, queuedMessages, now>>

tables == <<workspaces, workspaceRepos, sessions, executionProcesses,
            executionProcessRepoStates, approvals, queuedMessages>>

\* The tables of repositories and of per-repository snapshots.
repoTables == <<workspaceRepos, executionProcessRepoStates>>

\* --------------------------------------------------------------- helpers
Exists(table, id) == id \in 1..Len(table)

\* A handler that throws: the transaction is rolled back.
Throws == UNCHANGED vars

\* value ?? fallback
Coalesce(value, fallback) == IF value # Undefined THEN value ELSE fallback

\* Variant: a failed or killed execution reported as error.
mapExecutionToSessionStatusAsError(status) ==
    IF status = "pending" \/ status = "running" THEN "running"
    ELSE IF status = "failed" \/ status = "killed" THEN "error"
    ELSE "idle"

mapExecutionToSessionStatus(status) ==
    IF status = "pending" \/ status = "running" THEN "running"
    ELSE IF status = "failed" \/ status = "killed" THEN "needs_attention"
    ELSE "idle"

\* The `terminal` constant of setExecutionStatus.
terminal(status) ==
    status = "completed" \/ status = "failed" \/ status = "killed" \/ status = "dropped"

\* ----------------------------------------------------------------- clock
\* Date.now(): time passes between transactions.
Tick ==
    /\ now < MaxClock
    /\ now' = now + 1
    /\ UNCHANGED tables

\* ---------------------------------------------------------- workspaces.ts
\* The inserts and the pointer patch of createWorkspace.  workspaceRepoIds[0]
\* of an empty array is undefined.
createWorkspaceInserts(ownerUserId, name, branch, repos) ==
    LET workspaceId == Len(workspaces) + 1
        sessionId == Len(sessions) + 1
        workspaceRepoIds == [index \in 1..Len(repos) |-> Len(workspaceRepos) + index]
        inserted == [index \in 1..Len(repos) |->
                       [workspaceId |-> workspaceId,
                        repoId |-> repos[index].repoId,
                        enabled |-> IF repos[index].enabled = Undefined THEN TRUE
                                    ELSE repos[index].enabled[1],
                        sortOrder |-> IF repos[index].sortOrder = Undefined THEN index - 1
                                      ELSE repos[index].sortOrder[1]]]
    IN  /\ workspaces' = Append(workspaces,
               [ownerUserId |-> ownerUserId, name |-> name, branch |-> branch,
                status |-> "idle", archived |-> FALSE, pinned |-> FALSE,
                activeSessionId |-> Some(sessionId),
                activeWorkspaceRepoId |-> IF Len(repos) = 0 THEN Undefined
                                          ELSE Some(workspaceRepoIds[1])])
        /\ workspaceRepos' = workspaceRepos \o inserted
        /\ sessions' = Append(sessions, [workspaceId |-> workspaceId, status |-> "idle"])
        /\ UNCHANGED <<executionProcesses, executionProcessRepoStates, approvals,
                       queuedMessages, now>>

\* Variant: the repos argument is not checked.
createWorkspaceUnchecked(ownerUserId, name, branch, repos) ==
    createWorkspaceInserts(ownerUserId, name, branch, repos)

createWorkspace(ownerUserId, name, branch, repos) ==
    IF Len(repos) = 0 THEN Throws
    ELSE createWorkspaceInserts(ownerUserId, name, branch, repos)

\* Variant: every argument goes into the patch as it was given.
updateWorkspaceAsGiven(workspaceId, name, archived, pinned, status, activeSessionId, activeWorkspaceRepoId) ==
    IF ~Exists(workspaces, workspaceId)
        THEN Throws
        ELSE
        LET workspace == workspaces[workspaceId]
        IN  /\ workspaces' = [workspaces EXCEPT
                   ![workspaceId].name =
                       IF name = Undefined THEN workspace.name ELSE name[1],
                   ![workspaceId].archived =
                       IF archived = Undefined THEN workspace.archived ELSE archived[1],
                   ![workspaceId].pinned =
                       IF pinned = Undefined THEN workspace.pinned ELSE pinned[1],
                   ![workspaceId].status =
                       IF status = Undefined THEN workspace.status ELSE status[1],
                   ![workspaceId].activeSessionId = activeSessionId,
                   ![workspaceId].activeWorkspaceRepoId = activeWorkspaceRepoId]
            /\ UNCHANGED <<workspaceRepos, sessions, executionProcesses,
                           executionProcessRepoStates, approvals, queuedMessages, now>>

updateWorkspace(workspaceId, name, archived, pinned, status, activeSessionId, activeWorkspaceRepoId) ==
    IF ~Exists(workspaces, workspaceId)
        THEN Throws
        ELSE
        LET workspace == workspaces[workspaceId]
        IN  /\ workspaces' = [workspaces EXCEPT
                   ![workspaceId].name =
                       IF name = Undefined THEN workspace.name ELSE name[1],
                   ![workspaceId].archived =
                       IF archived = Undefined THEN workspace.archived ELSE archived[1],
                   ![workspaceId].pinned =
                       IF pinned = Undefined THEN workspace.pinned ELSE pinned[1],
                   ![workspaceId].status =
                       IF status = Undefined THEN workspace.status ELSE status[1],
                   ![workspaceId].activeSessionId =
                       Coalesce(activeSessionId, workspace.activeSessionId),
                   ![workspaceId].activeWorkspaceRepoId =
                       Coalesce(activeWorkspaceRepoId, workspace.activeWorkspaceRepoId)]
            /\ UNCHANGED <<workspaceRepos, sessions, executionProcesses,
                           executionProcessRepoStates, approvals, queuedMessages, now>>

\* rows.map(...) of listWorkspacesByOwner: what it returns for one workspace.
WorkspaceRowView(w) ==
    [workspaceId |-> w,
     ownerUserId |-> workspaces[w].ownerUserId,
     name |-> workspaces[w].name,
     branch |-> workspaces[w].branch,
     status |-> workspaces[w].status,
     archived |-> workspaces[w].archived,
     pinned |-> workspaces[w].pinned,
     activeSessionId |-> workspaces[w].activeSessionId,
     activeWorkspaceRepoId |-> workspaces[w].activeWorkspaceRepoId]

\* Variant: the index range leaves out the archived flag.
listWorkspacesByOwnerAnyArchived(ownerUserId, archived) ==
    { WorkspaceRowView(w) : w \in { w \in 1..Len(workspaces) :
          workspaces[w].ownerUserId = ownerUserId } }

\* The query listWorkspacesByOwner, as the set of the rows it returns (the
\* order of the array, pinned first and then latest update first, is left
\* out with updatedAt).
listWorkspacesByOwner(ownerUserId, archived) ==
    LET wanted == IF archived = Undefined THEN FALSE ELSE archived[1]
    IN  { WorkspaceRowView(w) : w \in { w \in 1..Len(workspaces) :
              /\ workspaces[w].ownerUserId = ownerUserId
              /\ workspaces[w].archived = wanted } }

\* ------------------------------- workspaceRepos (setActiveWorkspaceRepo; the
\* source sits behind sessions.ts)
\* Variant: the repository row only has to exist.
setActiveWorkspaceRepoAnyWorkspace(workspaceId, workspaceRepoId) ==
    IF ~Exists(workspaces, workspaceId) \/ ~Exists(workspaceRepos, workspaceRepoId)
        THEN Throws
        ELSE
        /\ workspaces' = [workspaces EXCEPT
               ![workspaceId].activeWorkspaceRepoId = Some(workspaceRepoId)]
        /\ UNCHANGED <<workspaceRepos, sessions, executionProcesses,
                       executionProcessRepoStates, approvals, queuedMessages, now>>

setActiveWorkspaceRepo(workspaceId, workspaceRepoId) ==
    IF ~Exists(workspaces, workspaceId)
        THEN Throws
        ELSE IF \/ ~Exists(workspaceRepos, workspaceRepoId)
                \/ workspaceRepos[workspaceRepoId].workspaceId # workspaceId
        THEN Throws
        ELSE
        /\ workspaces' = [workspaces EXCEPT
               ![workspaceId].activeWorkspaceRepoId = Some(workspaceRepoId)]
        /\ UNCHANGED <<workspaceRepos, sessions, executionProcesses,
                       executionProcessRepoStates, approvals, queuedMessages, now>>

\* ------------------------------------------------- executionProcesses.ts
\* Variant: the execution is inserted as pending.
startExecutionAsPending(workspaceId, sessionId, runReason, executor) ==
    IF ~Exists(workspaces, workspaceId) \/ ~Exists(sessions, sessionId)
        THEN Throws
        ELSE
        /\ executionProcesses' = Append(executionProcesses,
               [workspaceId |-> workspaceId, sessionId |-> sessionId,
                runReason |-> runReason, status |-> "pending",
                executor |-> executor, queuedFollowUpConsumed |-> FALSE,
                startedAt |-> now, completedAt |-> Undefined,
                errorMessage |-> Undefined])
        /\ sessions' = [sessions EXCEPT ![sessionId].status = "running"]
        /\ workspaces' = [workspaces EXCEPT ![workspaceId].status = "running",
                                            ![workspaceId].activeSessionId = Some(sessionId)]
        /\ UNCHANGED <<approvals, queuedMessages, now, repoTables>>

startExecution(workspaceId, sessionId, runReason, executor) ==
    IF ~Exists(workspaces, workspaceId) \/ ~Exists(sessions, sessionId)
        THEN Throws
        ELSE
        /\ executionProcesses' = Append(executionProcesses,
               [workspaceId |-> workspaceId, sessionId |-> sessionId,
                runReason |-> runReason, status |-> "running",
                executor |-> executor, queuedFollowUpConsumed |-> FALSE,
                startedAt |-> now, completedAt |-> Undefined,
                errorMessage |-> Undefined])
        /\ sessions' = [sessions EXCEPT ![sessionId].status = "running"]
        /\ workspaces' = [workspaces EXCEPT ![workspaceId].status = "running",
                                            ![workspaceId].activeSessionId = Some(sessionId)]
        /\ UNCHANGED <<approvals, queuedMessages, now, repoTables>>

\* The three patches of setExecutionStatus, as functions of the tables.
\* Variant: a completed execution counts as having consumed its follow-up.
setExecutionStatusProcessMarksConsumed(process, status, errorMessage, t) ==
    [process EXCEPT !.status = status,
                    !.errorMessage = errorMessage,
                    !.completedAt = IF terminal(status) THEN Some(t) ELSE process.completedAt,
                    !.queuedFollowUpConsumed =
                        IF status = "completed" THEN TRUE ELSE process.queuedFollowUpConsumed]

\* Variant: a terminal execution is left as it is.
setExecutionStatusProcessKeepsTerminal(process, status, errorMessage, t) ==
    IF terminal(process.status) THEN process
    ELSE [process EXCEPT !.status = status,
                         !.errorMessage = errorMessage,
                         !.completedAt = IF terminal(status) THEN Some(t)
                                         ELSE process.completedAt]

setExecutionStatusProcess(process, status, errorMessage, t) ==
    [process EXCEPT !.status = status,
                    !.errorMessage = errorMessage,
                    !.completedAt = IF terminal(status) THEN Some(t) ELSE process.completedAt]

\* Variant: every session of the execution's workspace gets the mapped status.
setExecutionStatusWholeWorkspace(executionProcessId, status, errorMessage) ==
    IF ~Exists(executionProcesses, executionProcessId)
        THEN Throws
        ELSE
        LET process == executionProcesses[executionProcessId]
            mappedSessionStatus == mapExecutionToSessionStatus(status)
        IN  /\ executionProcesses' = [executionProcesses EXCEPT ![executionProcessId] =
                   setExecutionStatusProcess(process, status, errorMessage, now)]
            /\ sessions' = [s \in 1..Len(sessions) |->
                   IF s = process.sessionId \/ sessions[s].workspaceId = process.workspaceId
                   THEN [sessions[s] EXCEPT !.status = mappedSessionStatus]
                   ELSE sessions[s]]
            /\ workspaces' = [workspaces EXCEPT ![process.workspaceId].status = mappedSessionStatus]
            /\ UNCHANGED <<approvals, queuedMessages, now, repoTables>>

setExecutionStatus(executionProcessId, status, errorMessage) ==
    IF ~Exists(executionProcesses, executionProcessId)
        THEN Throws
        ELSE
        LET process == executionProcesses[executionProcessId]
            mappedSessionStatus == mapExecutionToSessionStatus(status)
        IN  /\ executionProcesses' = [executionProcesses EXCEPT ![executionProcessId] =
                   setExecutionStatusProcess(process, status, errorMessage, now)]
            /\ sessions' = [sessions EXCEPT ![process.sessionId].status = mappedSessionStatus]
            /\ workspaces' = [workspaces EXCEPT ![process.workspaceId].status = mappedSessionStatus]
            /\ UNCHANGED <<approvals, queuedMessages, now, repoTables>>

\* Session reset to the execution P (reset_session_to_process), which no
\* file of the repository implements.  The git part is outside the model.
\* P and every execution of P's session that started at or after P get the
\* patch of setExecutionStatus with 'dropped'; the reset is then recorded as
\* a system execution, inserted as startExecution inserts.
droppedByReset(executionProcessId) ==
    { e \in 1..Len(executionProcesses) :
        /\ executionProcesses[e].sessionId = executionProcesses[executionProcessId].sessionId
        /\ executionProcesses[e].startedAt >= executionProcesses[executionProcessId].startedAt }

resetSessionToProcess(executionProcessId) ==
    IF ~Exists(executionProcesses, executionProcessId)
        THEN Throws
        ELSE
        LET P == executionProcesses[executionProcessId]
            marked == [e \in 1..Len(executionProcesses) |->
                IF e \in droppedByReset(executionProcessId)
                THEN setExecutionStatusProcess(executionProcesses[e], "dropped", Undefined, now)
                ELSE executionProcesses[e]]
        IN  /\ executionProcesses' = Append(marked,
                   [workspaceId |-> P.workspaceId, sessionId |-> P.sessionId,
                    runReason |-> "system", status |-> "running",
                    executor |-> Undefined, queuedFollowUpConsumed |-> FALSE,
                    startedAt |-> now, completedAt |-> Undefined,
                    errorMessage |-> Undefined])
            /\ sessions' = [sessions EXCEPT ![P.sessionId].status = "running"]
            /\ workspaces' = [workspaces EXCEPT
                   ![P.workspaceId].status = "running",
                   ![P.workspaceId].activeSessionId = Some(P.sessionId)]
            /\ UNCHANGED <<approvals, queuedMessages, now, repoTables>>

markQueuedFollowUpConsumed(executionProcessId) ==
    IF ~Exists(executionProcesses, executionProcessId)
        THEN Throws
        ELSE
        /\ executionProcesses' = [executionProcesses EXCEPT
               ![executionProcessId].queuedFollowUpConsumed = TRUE]
        /\ UNCHANGED <<workspaces, sessions, approvals, queuedMessages, now, repoTables>>

\* Variant: the index lookup finds nothing.
repoStateRowsNoIndex(executionProcessId, workspaceRepoId) == {}

\* withIndex(executionProcessId, workspaceRepoId): the rows of the pair.
repoStateRows(executionProcessId, workspaceRepoId) ==
    { i \in 1..Len(executionProcessRepoStates) :
        /\ executionProcessRepoStates[i].executionProcessId = executionProcessId
        /\ executionProcessRepoStates[i].workspaceRepoId = workspaceRepoId }

\* Variant: the patch writes the arguments as given, so an omitted field is
\* removed from the row.
repoStatePatchAsGiven(existing, beforeHeadCommit, afterHeadCommit, repoState) ==
    [existing EXCEPT !.beforeHeadCommit = beforeHeadCommit,
                     !.afterHeadCommit = afterHeadCommit,
                     !.repoState = repoState]

\* Variant: afterHeadCommit falls back on the stored beforeHeadCommit.
repoStatePatchMixedFallback(existing, beforeHeadCommit, afterHeadCommit, repoState) ==
    [existing EXCEPT !.beforeHeadCommit = Coalesce(beforeHeadCommit, existing.beforeHeadCommit),
                     !.afterHeadCommit = Coalesce(afterHeadCommit, existing.beforeHeadCommit),
                     !.repoState = Coalesce(repoState, existing.repoState)]

\* The patch of an existing row.
repoStatePatch(existing, beforeHeadCommit, afterHeadCommit, repoState) ==
    [existing EXCEPT !.beforeHeadCommit = Coalesce(beforeHeadCommit, existing.beforeHeadCommit),
                     !.afterHeadCommit = Coalesce(afterHeadCommit, existing.afterHeadCommit),
                     !.repoState = Coalesce(repoState, existing.repoState)]

\* The index by_session_id_and_started_at read with order('desc'): greatest
\* startedAt first, the later document first among equals.
RECURSIVE descendingByStartedAt(_)
descendingByStartedAt(ids) ==
    IF ids = {} THEN <<>>
    ELSE LET first == CHOOSE e \in ids : \A f \in ids :
                         \/ executionProcesses[f].startedAt < executionProcesses[e].startedAt
                         \/ ( /\ executionProcesses[f].startedAt = executionProcesses[e].startedAt
                              /\ f <= e )
         IN  <<first>> \o descendingByStartedAt(ids \ {first})

\* rows.map(...): what the query returns for one document.
ExecutionRowView(e) ==
    [executionProcessId |-> e,
     workspaceId |-> executionProcesses[e].workspaceId,
     sessionId |-> executionProcesses[e].sessionId,
     runReason |-> executionProcesses[e].runReason,
     status |-> executionProcesses[e].status,
     executor |-> executionProcesses[e].executor,
     queuedFollowUpConsumed |-> executionProcesses[e].queuedFollowUpConsumed,
     startedAt |-> executionProcesses[e].startedAt,
     completedAt |-> executionProcesses[e].completedAt,
     errorMessage |-> executionProcesses[e].errorMessage]

\* Variant: the index is read in ascending order.
listExecutionProcessesBySessionOldestFirst(sessionId, limit) ==
    LET descending == descendingByStartedAt(
                          { e \in 1..Len(executionProcesses) :
                              executionProcesses[e].sessionId = sessionId })
        ordered == [i \in 1..Len(descending) |-> descending[Len(descending) + 1 - i]]
        rows == IF limit = Undefined THEN ordered
                ELSE SubSeq(ordered, 1, IF limit[1] < Len(ordered) THEN limit[1]
                                        ELSE Len(ordered))
    IN  [i \in 1..Len(rows) |-> ExecutionRowView(rows[i])]

\* The query listExecutionProcessesBySession: collect(), or take(limit).
listExecutionProcessesBySession(sessionId, limit) ==
    LET ordered == descendingByStartedAt(
                       { e \in 1..Len(executionProcesses) :
                           executionProcesses[e].sessionId = sessionId })
        rows == IF limit = Undefined THEN ordered
                ELSE SubSeq(ordered, 1, IF limit[1] < Len(ordered) THEN limit[1]
                                        ELSE Len(ordered))
    IN  [i \in 1..Len(rows) |-> ExecutionRowView(rows[i])]

\* .unique() throws when the index holds more than one row of the pair.
upsertExecutionRepoState(executionProcessId, workspaceRepoId, beforeHeadCommit, afterHeadCommit, repoState) ==
    LET found == repoStateRows(executionProcessId, workspaceRepoId)
    IN  IF Cardinality(found) > 1
        THEN Throws
        ELSE
        /\ executionProcessRepoStates' =
               IF found # {}
               THEN LET existing == CHOOSE i \in found : TRUE
                    IN  [executionProcessRepoStates EXCEPT ![existing] =
                            repoStatePatch(executionProcessRepoStates[existing],
                                           beforeHeadCommit, afterHeadCommit, repoState)]
               ELSE Append(executionProcessRepoStates,
                        [executionProcessId |-> executionProcessId,
                         workspaceRepoId |-> workspaceRepoId,
                         beforeHeadCommit |-> beforeHeadCommit,
                         afterHeadCommit |-> afterHeadCommit,
                         repoState |-> repoState])
        /\ UNCHANGED <<workspaces, workspaceRepos, sessions, executionProcesses,
                       approvals, queuedMessages, now>>

\* ------------------------------------------------------------ sessions.ts
createSession(workspaceId) ==
    IF ~Exists(workspaces, workspaceId)
        THEN Throws
        ELSE
        /\ sessions' = Append(sessions, [workspaceId |-> workspaceId, status |-> "idle"])
        /\ workspaces' = [workspaces EXCEPT
               ![workspaceId].activeSessionId = Some(Len(sessions) + 1)]
        /\ UNCHANGED <<executionProcesses, approvals, queuedMessages, now, repoTables>>

setSessionStatus(sessionId, status) ==
    IF ~Exists(sessions, sessionId)
        THEN Throws
        ELSE
        /\ sessions' = [sessions EXCEPT ![sessionId].status = status]
        /\ UNCHANGED <<workspaces, executionProcesses, approvals, queuedMessages, now, repoTables>>

\* -------------------------------------------- approvals (requestApproval,
\* respondApproval; the source sits behind migration-workspaces.md)
\* Variant: the request also puts the originating execution back to pending.
requestApprovalSuspendsExecution(workspaceId, sessionId, executionProcessId, kind, prompt, expiresAt) ==
    IF ~Exists(sessions, sessionId) \/ ~Exists(workspaces, workspaceId)
        THEN Throws
        ELSE
        /\ approvals' = Append(approvals,
               [workspaceId |-> workspaceId, sessionId |-> sessionId,
                executionProcessId |-> executionProcessId, kind |-> kind,
                prompt |-> prompt, status |-> "pending", requestedAt |-> now,
                expiresAt |-> expiresAt, respondedAt |-> Undefined,
                respondedBy |-> Undefined])
        /\ sessions' = [sessions EXCEPT ![sessionId].status = "needs_attention"]
        /\ workspaces' = [workspaces EXCEPT ![workspaceId].status = "needs_attention"]
        /\ executionProcesses' = [executionProcesses EXCEPT
               ![executionProcessId].status = "pending"]
        /\ UNCHANGED <<queuedMessages, now, repoTables>>

requestApproval(workspaceId, sessionId, executionProcessId, kind, prompt, expiresAt) ==
    IF ~Exists(sessions, sessionId) \/ ~Exists(workspaces, workspaceId)
        THEN Throws
        ELSE
        /\ approvals' = Append(approvals,
               [workspaceId |-> workspaceId, sessionId |-> sessionId,
                executionProcessId |-> executionProcessId, kind |-> kind,
                prompt |-> prompt, status |-> "pending", requestedAt |-> now,
                expiresAt |-> expiresAt, respondedAt |-> Undefined,
                respondedBy |-> Undefined])
        /\ sessions' = [sessions EXCEPT ![sessionId].status = "needs_attention"]
        /\ workspaces' = [workspaces EXCEPT ![workspaceId].status = "needs_attention"]
        /\ UNCHANGED <<executionProcesses, queuedMessages, now, repoTables>>

\* Variant: the response is written whatever the approval's status is.
respondApprovalUnguarded(approvalId, status, respondedBy) ==
    IF ~Exists(approvals, approvalId)
        THEN Throws
        ELSE
        LET approval == approvals[approvalId]
        IN  /\ approvals' = [approvals EXCEPT ![approvalId].status = status,
                                              ![approvalId].respondedBy = Some(respondedBy),
                                              ![approvalId].respondedAt = Some(now)]
            /\ sessions' = [sessions EXCEPT ![approval.sessionId].status = "idle"]
            /\ workspaces' = [workspaces EXCEPT ![approval.workspaceId].status = "idle"]
            /\ UNCHANGED <<executionProcesses, queuedMessages, now, repoTables>>

respondApproval(approvalId, status, respondedBy) ==
    IF ~Exists(approvals, approvalId)
        THEN Throws
        ELSE
        LET approval == approvals[approvalId]
        IN  IF approval.status # "pending"
            THEN Throws
            ELSE
            /\ approvals' = [approvals EXCEPT ![approvalId].status = status,
                                              ![approvalId].respondedBy = Some(respondedBy),
                                              ![approvalId].respondedAt = Some(now)]
            /\ sessions' = [sessions EXCEPT ![approval.sessionId].status = "idle"]
            /\ workspaces' = [workspaces EXCEPT ![approval.workspaceId].status = "idle"]
            /\ UNCHANGED <<executionProcesses, queuedMessages, now, repoTables>>

\* The background reaper of the approval flow, which no file of the
\* repository implements: every pending approval whose expiresAt is earlier
\* than the current time becomes expired.
overdue(approval) ==
    /\ approval.status = "pending"
    /\ approval.expiresAt # Undefined
    /\ approval.expiresAt[1] < now

reapExpiredApprovals ==
    /\ \E a \in 1..Len(approvals) : overdue(approvals[a])
    /\ approvals' = [a \in 1..Len(approvals) |->
           IF overdue(approvals[a])
           THEN [approvals[a] EXCEPT !.status = "expired"]
           ELSE approvals[a]]
    /\ UNCHANGED <<workspaces, sessions, executionProcesses, queuedMessages, now,
                   repoTables>>

\* ------------------------------------------------------ queuedMessages.ts
\* withIndex(sessionId, state = 'queued').order('desc').first(): the queued
\* row of the session with the greatest queuedAt, the latest inserted among
\* equals; 0 when there is none.
\* Variant: the index range leaves out state = 'queued'.
QueuedRowsAnyState(sessionId) ==
    { i \in 1..Len(queuedMessages) : queuedMessages[i].sessionId = sessionId }

QueuedRows(sessionId) ==
    { i \in 1..Len(queuedMessages) :
        queuedMessages[i].sessionId = sessionId /\ queuedMessages[i].state = "queued" }

firstQueued(sessionId) ==
    IF QueuedRows(sessionId) = {} THEN 0
    ELSE CHOOSE i \in QueuedRows(sessionId) :
           \A j \in QueuedRows(sessionId) :
              \/ queuedMessages[j].queuedAt < queuedMessages[i].queuedAt
              \/ (queuedMessages[j].queuedAt = queuedMessages[i].queuedAt /\ j <= i)

\* Variant: the existing queued row is not looked up; every call inserts.
enqueueFollowUpAlwaysInserts(sessionId, message, executor, variant, enqueueingProcessId) ==
    /\ queuedMessages' = Append(queuedMessages,
           [sessionId |-> sessionId, message |-> message,
            executor |-> executor, variant |-> variant,
            enqueueingProcessId |-> enqueueingProcessId,
            state |-> "queued", queuedAt |-> now])
    /\ UNCHANGED <<workspaces, sessions, executionProcesses, approvals, now, repoTables>>

\* Variant: the overwrite replaces the message only and keeps the old
\* executor, variant, enqueueing execution and queuedAt.
enqueueFollowUpMessageOnly(sessionId, message, executor, variant, enqueueingProcessId) ==
    LET existingQueued == firstQueued(sessionId)
    IN  /\ IF existingQueued # 0
           THEN queuedMessages' = [queuedMessages EXCEPT ![existingQueued].message = message]
           ELSE queuedMessages' = Append(queuedMessages,
                    [sessionId |-> sessionId, message |-> message,
                     executor |-> executor, variant |-> variant,
                     enqueueingProcessId |-> enqueueingProcessId,
                     state |-> "queued", queuedAt |-> now])
        /\ UNCHANGED <<workspaces, sessions, executionProcesses, approvals, now, repoTables>>

\* Variant: with no queued row, a finished row of the session is put back to
\* queued with the new message instead of inserting.
enqueueFollowUpRequeuesFinished(sessionId, message, executor, variant, enqueueingProcessId) ==
    LET existingQueued == firstQueued(sessionId)
        finished == { i \in 1..Len(queuedMessages) :
                        queuedMessages[i].sessionId = sessionId }
        reused == IF existingQueued # 0 THEN existingQueued
                  ELSE IF finished # {} THEN CHOOSE i \in finished : TRUE
                  ELSE 0
    IN  /\ IF reused # 0
           THEN queuedMessages' = [queuedMessages EXCEPT
                    ![reused].message = message,
                    ![reused].executor = executor,
                    ![reused].variant = variant,
                    ![reused].enqueueingProcessId = enqueueingProcessId,
                    ![reused].state = "queued",
                    ![reused].queuedAt = now]
           ELSE queuedMessages' = Append(queuedMessages,
                    [sessionId |-> sessionId, message |-> message,
                     executor |-> executor, variant |-> variant,
                     enqueueingProcessId |-> enqueueingProcessId,
                     state |-> "queued", queuedAt |-> now])
        /\ UNCHANGED <<workspaces, sessions, executionProcesses, approvals, now, repoTables>>

enqueueFollowUp(sessionId, message, executor, variant, enqueueingProcessId) ==
    LET existingQueued == firstQueued(sessionId)
    IN  /\ IF existingQueued # 0
           THEN queuedMessages' = [queuedMessages EXCEPT
                    ![existingQueued].message = message,
                    ![existingQueued].executor = executor,
                    ![existingQueued].variant = variant,
                    ![existingQueued].enqueueingProcessId = enqueueingProcessId,
                    ![existingQueued].queuedAt = now]
           ELSE queuedMessages' = Append(queuedMessages,
                    [sessionId |-> sessionId, message |-> message,
                     executor |-> executor, variant |-> variant,
                     enqueueingProcessId |-> enqueueingProcessId,
                     state |-> "queued", queuedAt |-> now])
        /\ UNCHANGED <<workspaces, sessions, executionProcesses, approvals, now, repoTables>>

QueueRowView(status, i) ==
    [status |-> status, queuedMessageId |-> i,
     message |-> queuedMessages[i].message,
     executor |-> queuedMessages[i].executor,
     variant |-> queuedMessages[i].variant,
     queuedAt |-> queuedMessages[i].queuedAt,
     enqueueingProcessId |-> queuedMessages[i].enqueueingProcessId]

\* The query getQueueStatus.
getQueueStatus(sessionId) ==
    LET queued == firstQueued(sessionId)
    IN  IF queued = 0 THEN [status |-> "empty"] ELSE QueueRowView("queued", queued)

consumeQueuedMessage(sessionId) ==
    LET queued == firstQueued(sessionId)
    IN  IF queued = 0
        THEN UNCHANGED vars
        ELSE /\ queuedMessages' = [queuedMessages EXCEPT ![queued].state = "consumed"]
             /\ UNCHANGED <<workspaces, sessions, executionProcesses, approvals, now, repoTables>>

\* What consumeQueuedMessage returns, from the state it ran in.
consumeQueuedMessageReturns(sessionId) ==
    LET queued == firstQueued(sessionId)
    IN  IF queued = 0 THEN [status |-> "empty"] ELSE QueueRowView("consumed", queued)

discardQueuedMessage(sessionId) ==
    LET queued == firstQueued(sessionId)
    IN  IF queued = 0
        THEN UNCHANGED vars
        ELSE /\ queuedMessages' = [queuedMessages EXCEPT ![queued].state = "discarded"]
             /\ UNCHANGED <<workspaces, sessions, executionProcesses, approvals, now, repoTables>>

\* ----------------------------------------------------------- state after
\* createWorkspace twice, each with one repository: workspace 1 with repo 1
\* and session 1, workspace 2 with repo 2 and session 2, everything idle,
\* each workspace pointing at its session and its repository.
SeedWorkspaces ==
    << [ownerUserId |-> "alice", name |-> "W1", branch |-> "feat/x",
        status |-> "idle", archived |-> FALSE, pinned |-> FALSE,
        activeSessionId |-> Some(1), activeWorkspaceRepoId |-> Some(1)],
       [ownerUserId |-> "alice", name |-> "W2", branch |-> "feat/y",
        status |-> "idle", archived |-> FALSE, pinned |-> FALSE,
        activeSessionId |-> Some(2), activeWorkspaceRepoId |-> Some(2)] >>

SeedWorkspaceRepos ==
    << [workspaceId |-> 1, repoId |-> "api", enabled |-> TRUE, sortOrder |-> 0],
       [workspaceId |-> 2, repoId |-> "api", enabled |-> TRUE, sortOrder |-> 0] >>

SeedSessions ==
    << [workspaceId |-> 1, status |-> "idle"],
       [workspaceId |-> 2, status |-> "idle"] >>

Init ==
    /\ workspaces = SeedWorkspaces
    /\ workspaceRepos = SeedWorkspaceRepos
    /\ sessions = SeedSessions
    /\ executionProcesses = <<>>
    /\ executionProcessRepoStates = <<>>
    /\ approvals = <<>>
    /\ queuedMessages = <<>>
    /\ now = 0

\* A store in use: after startExecution(1, 1) -> execution 1, one
\* enqueueFollowUp on each session, upsertExecutionRepoState(1, 1, "c0") and
\* requestApproval(1, 1, 1).
InitInUse ==
    /\ workspaces = [SeedWorkspaces EXCEPT ![1].status = "needs_attention"]
    /\ workspaceRepos = SeedWorkspaceRepos
    /\ sessions = [SeedSessions EXCEPT ![1].status = "needs_attention"]
    /\ executionProcesses =
          << [workspaceId |-> 1, sessionId |-> 1, runReason |-> "coding_agent",
              status |-> "running", executor |-> Undefined,
              queuedFollowUpConsumed |-> FALSE, startedAt |-> 0,
              completedAt |-> Undefined, errorMessage |-> Undefined] >>
    /\ executionProcessRepoStates =
          << [executionProcessId |-> 1, workspaceRepoId |-> 1,
              beforeHeadCommit |-> Some("c0"), afterHeadCommit |-> Undefined,
              repoState |-> Undefined] >>
    /\ approvals =
          << [workspaceId |-> 1, sessionId |-> 1, executionProcessId |-> 1,
              kind |-> "dangerous_write", prompt |-> "overwrite file?",
              status |-> "pending", requestedAt |-> 0, expiresAt |-> Undefined,
              respondedAt |-> Undefined, respondedBy |-> Undefined] >>
    /\ queuedMessages =
          << [sessionId |-> 1, message |-> "also update README",
              executor |-> Undefined, variant |-> Undefined,
              enqueueingProcessId |-> Undefined, state |-> "queued", queuedAt |-> 0],
             [sessionId |-> 2, message |-> "also update README",
              executor |-> Undefined, variant |-> Undefined,
              enqueueingProcessId |-> Undefined, state |-> "queued", queuedAt |-> 0] >>
    /\ now = 0

\* ------------------------------------------------- the callers' requests
CreateWorkspace ==
    /\ Len(workspaces) < MaxWorkspaces
    /\ \E repos \in WorkspaceReposInputs : createWorkspace("alice", "W3", "feat/z", repos)

\* Archiving and pinning.
UpdateWorkspace ==
    \E w \in 1..(Len(workspaces) + 1), archived \in OptionalFlagInputs,
       pinned \in OptionalFlagInputs :
        updateWorkspace(w, Undefined, archived, pinned, Undefined, Undefined, Undefined)

\* updateWorkspace moving the two pointers of a workspace, to any session and
\* any repository row in the store.
UpdateWorkspacePointers ==
    \E w \in 1..Len(workspaces) :
        \E s \in {Undefined} \cup { Some(i) : i \in 1..Len(sessions) } :
            \E r \in {Undefined} \cup { Some(i) : i \in 1..Len(workspaceRepos) } :
                updateWorkspace(w, Undefined, Undefined, Undefined, Undefined, s, r)

\* The calls of updateWorkspace: an edit of what the list shows (name,
\* archived, pinned), or an edit of status and pointers, each argument given
\* or omitted.
UpdateWorkspaceInputs ==
    { <<name, archived, pinned, Undefined, Undefined, Undefined>> :
          name \in NameInputs, archived \in OptionalFlagInputs, pinned \in OptionalFlagInputs }
    \cup
    { <<Undefined, Undefined, Undefined, status, s, r>> :
          status \in StatusInputs, s \in PointerInputs, r \in PointerInputs }

UpdateWorkspaceAnyFields ==
    \E w \in 1..(Len(workspaces) + 1), a \in UpdateWorkspaceInputs :
        updateWorkspace(w, a[1], a[2], a[3], a[4], a[5], a[6])

CreateSession ==
    /\ Len(sessions) < MaxSessions
    /\ \E w \in 1..(Len(workspaces) + 1) : createSession(w)

SetActiveWorkspaceRepo ==
    \E w \in 1..(Len(workspaces) + 1), r \in 1..(Len(workspaceRepos) + 1) :
        setActiveWorkspaceRepo(w, r)

StartExecutionUpTo(n) ==
    /\ Len(executionProcesses) < n
    /\ \E w \in 1..(Len(workspaces) + 1), s \in 1..(Len(sessions) + 1), r \in RunReasonInputs :
           startExecution(w, s, r, Undefined)

StartExecution == StartExecutionUpTo(MaxExecutions)

StartSessionExecution == StartExecutionUpTo(MaxSessionExecutions)

SetExecutionStatus ==
    \E e \in 1..(Len(executionProcesses) + 1), st \in ExecutionStatus, m \in ErrorMessageInputs :
        setExecutionStatus(e, st, m)

\* A report of any status that carries no message.
SetExecutionStatusNoMessage ==
    \E e \in 1..(Len(executionProcesses) + 1), st \in ExecutionStatus :
        setExecutionStatus(e, st, Undefined)

\* The runner's report of an exit: completed, or failed with a message.
FinishExecution ==
    \E e \in 1..Len(executionProcesses) :
        \/ setExecutionStatus(e, "completed", Undefined)
        \/ \E m \in ErrorMessageInputs : m # Undefined /\ setExecutionStatus(e, "failed", m)

\* An execution marked dropped.
DropExecution ==
    \E e \in 1..Len(executionProcesses) : setExecutionStatus(e, "dropped", Undefined)

\* An execution started in a session of the session's own workspace.
StartOwnSessionExecution ==
    /\ Len(executionProcesses) < MaxSessionExecutions
    /\ \E s \in 1..Len(sessions), r \in RunReasonInputs :
           startExecution(sessions[s].workspaceId, s, r, Undefined)

\* The runner's report of a clean exit.
CompleteExecution ==
    \E e \in 1..Len(executionProcesses) : setExecutionStatus(e, "completed", Undefined)

\* A reset to any execution, while the table has room for its record.
ResetSessionToProcess ==
    /\ Len(executionProcesses) <= MaxSessionExecutions
    /\ \E p \in 1..Len(executionProcesses) : resetSessionToProcess(p)

MarkQueuedFollowUpConsumed ==
    \E e \in 1..(Len(executionProcesses) + 1) : markQueuedFollowUpConsumed(e)

SetSessionStatus ==
    \E s \in 1..(Len(sessions) + 1), st \in SessionStatus : setSessionStatus(s, st)

UpsertExecutionRepoState ==
    \E e \in 1..Len(executionProcesses), r \in 1..Len(workspaceRepos), in \in RepoStateInputs :
        /\ repoStateRows(e, r) = {} => Len(executionProcessRepoStates) < MaxRepoStates
        /\ upsertExecutionRepoState(e, r, in.beforeHeadCommit, in.afterHeadCommit,
                                    in.repoState)

RequestApproval ==
    /\ Len(approvals) < MaxApprovals
    /\ \E w \in 1..Len(workspaces), s \in 1..Len(sessions), e \in 1..Len(executionProcesses) :
           \E k \in ApprovalKindInputs, p \in PromptInputs :
               requestApproval(w, s, e, k, p, Undefined)

\* requestApproval with or without a deadline.
RequestApprovalExpiring ==
    /\ Len(approvals) < MaxApprovals
    /\ \E w \in 1..Len(workspaces), s \in 1..Len(sessions), e \in 1..Len(executionProcesses) :
           \E k \in ApprovalKindInputs, p \in PromptInputs, x \in ExpiresAtInputs :
               requestApproval(w, s, e, k, p, x)

RespondApproval ==
    \E a \in 1..(Len(approvals) + 1), st \in ResponseInputs, by \in RespondedByInputs :
        respondApproval(a, st, by)

EnqueueFollowUp ==
    \E s \in 1..Len(sessions), in \in FollowUpInputs :
        /\ firstQueued(s) = 0 => Len(queuedMessages) < MaxQueued
        /\ enqueueFollowUp(s, in.message, in.executor, in.variant, in.enqueueingProcessId)

ConsumeQueuedMessage == \E s \in 1..Len(sessions) : consumeQueuedMessage(s)

DiscardQueuedMessage == \E s \in 1..Len(sessions) : discardQueuedMessage(s)

\* ------------------------------------------------------- specifications
\* Workspaces created, archived, pinned and pointed at a repository.
NextWorkspace ==
    \/ CreateWorkspace
    \/ UpdateWorkspace
    \/ SetActiveWorkspaceRepo

SpecWorkspace == Init /\ [][NextWorkspace]_vars

\* The handlers that write a workspace's active session and active
\* repository.
NextPointers ==
    \/ CreateWorkspace
    \/ CreateSession
    \/ StartExecution
    \/ UpdateWorkspacePointers
    \/ SetActiveWorkspaceRepo

SpecPointers == Init /\ [][NextPointers]_vars

\* Executions started, reported and marked as having consumed the queued
\* follow-up.
NextConsumedFlag ==
    \/ StartOwnSessionExecution
    \/ SetExecutionStatusNoMessage
    \/ MarkQueuedFollowUpConsumed

SpecConsumedFlag == Init /\ [][NextConsumedFlag]_vars

\* Executions started and reported in workspaces that may have several
\* sessions.
NextWorkspaceStatus ==
    \/ CreateSession
    \/ StartOwnSessionExecution
    \/ SetExecutionStatusNoMessage

SpecWorkspaceStatus == Init /\ [][NextWorkspaceStatus]_vars

\* Workspaces of a store in use, edited.
NextWorkspaceEdit ==
    \/ UpdateWorkspaceAnyFields

SpecWorkspaceEdit == InitInUse /\ [][NextWorkspaceEdit]_vars

\* Execution lifecycle.
NextExec ==
    \/ Tick
    \/ StartExecution
    \/ SetExecutionStatus

SpecExec == Init /\ [][NextExec]_vars

\* A session with an older and a newer execution.
NextProjection ==
    \/ Tick
    \/ StartSessionExecution
    \/ SetExecutionStatus

SpecProjection == Init /\ [][NextProjection]_vars

\* Repository snapshots of started executions.
NextRepoState ==
    \/ StartExecution
    \/ UpsertExecutionRepoState

SpecRepoState == Init /\ [][NextRepoState]_vars

\* Repository snapshots next to the execution lifecycle.
NextSnapshot ==
    \/ StartExecution
    \/ SetExecutionStatus
    \/ UpsertExecutionRepoState

SpecSnapshot == Init /\ [][NextSnapshot]_vars

\* Executions started and finished in a store whose other tables hold rows.
NextInUse ==
    \/ Tick
    \/ StartSessionExecution
    \/ FinishExecution

SpecInUse == InitInUse /\ [][NextInUse]_vars

\* The executions of a session over time: started, finished, dropped.
NextHistory ==
    \/ Tick
    \/ StartSessionExecution
    \/ FinishExecution
    \/ DropExecution

SpecHistory == Init /\ [][NextHistory]_vars

\* Executions started and finished, and sessions reset.
NextReset ==
    \/ Tick
    \/ StartOwnSessionExecution
    \/ CompleteExecution
    \/ ResetSessionToProcess

SpecReset == Init /\ [][NextReset]_vars

\* Approvals next to the execution lifecycle.
NextApproval ==
    \/ StartExecution
    \/ SetExecutionStatus
    \/ RequestApproval
    \/ RespondApproval

SpecApproval == Init /\ [][NextApproval]_vars

\* Approvals requested and answered while the executions run.
NextApprovalFlow ==
    \/ StartExecution
    \/ RequestApproval
    \/ RespondApproval

SpecApprovalFlow == Init /\ [][NextApprovalFlow]_vars

\* Approvals with deadlines and the reaper.  The reaper is a periodic job and
\* the clock advances: both are weakly fair.  Responses come from people and
\* carry no fairness.
NextExpiry ==
    \/ Tick
    \/ StartExecution
    \/ RequestApprovalExpiring
    \/ RespondApproval
    \/ reapExpiredApprovals

SpecExpiry ==
    Init /\ [][NextExpiry]_vars /\ WF_vars(Tick) /\ WF_vars(reapExpiredApprovals)

\* Direct session status writes and the follow-up mark next to the
\* execution lifecycle.
NextSession ==
    \/ StartExecution
    \/ SetExecutionStatus
    \/ MarkQueuedFollowUpConsumed
    \/ SetSessionStatus

SpecSession == Init /\ [][NextSession]_vars

\* The follow-up queue.
NextQueue ==
    \/ Tick
    \/ EnqueueFollowUp
    \/ ConsumeQueuedMessage
    \/ DiscardQueuedMessage

SpecQueue == Init /\ [][NextQueue]_vars

\* The follow-up queue next to the execution lifecycle.
NextExecQueue ==
    \/ StartExecution
    \/ SetExecutionStatus
    \/ EnqueueFollowUp
    \/ ConsumeQueuedMessage
    \/ DiscardQueuedMessage

SpecExecQueue == Init /\ [][NextExecQueue]_vars

\* ================================================================ claims
\* The statuses the specification calls terminal.
TerminalStatuses == {"completed", "failed", "killed", "dropped"}

\* The execution-to-session status mapping of the specification, as a table.
SessionStatusOf ==
    [pending |-> "running", running |-> "running",
     failed |-> "needs_attention", killed |-> "needs_attention",
     completed |-> "idle", dropped |-> "idle"]

\* C1: once an execution's status is completed, failed, killed or dropped,
\* no step of the store changes that status again.
C1_TerminalIsSink ==
    [][\A e \in 1..Len(executionProcesses) :
          executionProcesses[e].status \in TerminalStatuses
              => executionProcesses'[e].status = executionProcesses[e].status]_vars

\* C2: every change of an execution's status is one of the arcs
\* pending->running, running->completed, running->failed, running->killed,
\* running->dropped.
C2_OnlyStateMachineArcs ==
    [][\A e \in 1..Len(executionProcesses) :
          LET old == executionProcesses[e].status
              new == executionProcesses'[e].status
          IN  old # new =>
                 <<old, new>> \in { <<"pending", "running">>, <<"running", "completed">>,
                                    <<"running", "failed">>, <<"running", "killed">>,
                                    <<"running", "dropped">> }]_vars

\* C3: a second setExecutionStatus with the same execution, status and
\* errorMessage as the call whose result is the current state leaves the
\* execution document, the session status and the workspace status as they are.
C3_SetExecutionStatusIdempotent ==
    [][\A e \in 1..Len(executionProcesses), st \in ExecutionStatus, m \in ErrorMessageInputs :
          LET process == executionProcesses[e]
              afterFirstCall ==
                  /\ process.status = st
                  /\ process.errorMessage = m
                  /\ (st \in TerminalStatuses => process.completedAt # Undefined)
                  /\ sessions[process.sessionId].status = SessionStatusOf[st]
                  /\ workspaces[process.workspaceId].status = SessionStatusOf[st]
          IN  (afterFirstCall /\ setExecutionStatus(e, st, m)) =>
                  /\ executionProcesses'[e] = executionProcesses[e]
                  /\ sessions' = sessions
                  /\ workspaces' = workspaces]_vars

\* C4: a successful setExecutionStatus(e, s) leaves e's session and e's
\* workspace with the status the mapping gives for s, which is never error.
\* (A step is a setExecutionStatus(e, st, m) only for the st and m it leaves
\* stored on e, so those two are read from the execution after the step.)
C4_StatusProjectedOnSet ==
    [][\A e \in 1..Len(executionProcesses) :
          LET st == executionProcesses'[e].status
              m == executionProcesses'[e].errorMessage
          IN  setExecutionStatus(e, st, m) =>
                 /\ sessions'[executionProcesses[e].sessionId].status = SessionStatusOf[st]
                 /\ workspaces'[executionProcesses[e].workspaceId].status = SessionStatusOf[st]
                 /\ sessions'[executionProcesses[e].sessionId].status # "error"
                 /\ workspaces'[executionProcesses[e].workspaceId].status # "error"]_vars

\* C4 witness: an execution set to killed whose session and workspace both
\* show needs_attention while another session is still idle.
C4_Witness ==
    \E e \in 1..Len(executionProcesses) :
        /\ executionProcesses[e].status = "killed"
        /\ sessions[executionProcesses[e].sessionId].status = "needs_attention"
        /\ workspaces[executionProcesses[e].workspaceId].status = "needs_attention"
        /\ \E s \in 1..Len(sessions) : sessions[s].status = "idle"

\* C5: every session that has executions shows the mapping of the status of
\* an execution with the greatest startedAt among them.
C5_SessionIsProjectionOfLatest ==
    \A s \in 1..Len(sessions) :
        LET mine == { e \in 1..Len(executionProcesses) : executionProcesses[e].sessionId = s }
            latest == { e \in mine : \A f \in mine :
                          executionProcesses[f].startedAt <= executionProcesses[e].startedAt }
        IN  mine # {} =>
               \E e \in latest : sessions[s].status = SessionStatusOf[executionProcesses[e].status]

\* C6: a setExecutionStatus on an execution that is already terminal never
\* leaves its session or its workspace running.
C6_TerminalNeverBackToRunning ==
    [][\A e \in 1..Len(executionProcesses), st \in ExecutionStatus, m \in ErrorMessageInputs :
          (executionProcesses[e].status \in TerminalStatuses /\ setExecutionStatus(e, st, m)) =>
              /\ sessions'[executionProcesses[e].sessionId].status # "running"
              /\ workspaces'[executionProcesses[e].workspaceId].status # "running"]_vars

\* C7: every session has at most one queuedMessages row in state queued.
C7_AtMostOneQueued ==
    \A s \in 1..Len(sessions) :
        Cardinality({ i \in 1..Len(queuedMessages) :
                        queuedMessages[i].sessionId = s /\ queuedMessages[i].state = "queued" }) <= 1

\* C7 witness: a session whose queue was consumed or discarded and then
\* filled again: one queued row next to an older finished row.
C7_Witness ==
    \E i, j \in 1..Len(queuedMessages) :
        /\ queuedMessages[i].sessionId = queuedMessages[j].sessionId
        /\ queuedMessages[i].state # "queued"
        /\ queuedMessages[j].state = "queued"

\* C8: enqueueFollowUp overwrites the session's queued row (message, executor,
\* variant, enqueueing execution, queuedAt) without adding a row, or inserts
\* one queued row when there is none; afterwards getQueueStatus and the next
\* consumeQueuedMessage return the message just enqueued.  (The first
\* conjunct leaves out the steps that change no row.)
C8_ReplacementRule ==
    [][\A s \in 1..Len(sessions) :
          LET queuedOfS == { i \in 1..Len(queuedMessages) :
                               queuedMessages[i].sessionId = s /\ queuedMessages[i].state = "queued" }
          IN  \A in \in FollowUpInputs :
                LET written(row) ==
                        /\ row.sessionId = s
                        /\ row.state = "queued"
                        /\ row.message = in.message
                        /\ row.executor = in.executor
                        /\ row.variant = in.variant
                        /\ row.enqueueingProcessId = in.enqueueingProcessId
                        /\ row.queuedAt = now
                    reported == getQueueStatus(s)'
                    returned == consumeQueuedMessageReturns(s)'
                IN  ( /\ queuedMessages' # queuedMessages
                      /\ enqueueFollowUp(s, in.message, in.executor, in.variant,
                                         in.enqueueingProcessId) ) =>
                       /\ queuedOfS # {} =>
                             /\ Len(queuedMessages') = Len(queuedMessages)
                             /\ \A i \in queuedOfS : written(queuedMessages'[i])
                       /\ queuedOfS = {} =>
                             /\ Len(queuedMessages') = Len(queuedMessages) + 1
                             /\ written(queuedMessages'[Len(queuedMessages')])
                       /\ \A i \in (1..Len(queuedMessages)) \ queuedOfS :
                             queuedMessages'[i] = queuedMessages[i]
                       /\ reported.status = "queued"
                       /\ reported.message = in.message
                       /\ returned.status = "consumed"
                       /\ returned.message = in.message
                       /\ returned.executor = in.executor
                       /\ returned.variant = in.variant]_vars

\* C8 witness: the second follow-up sits alone in the queue table, stamped
\* after the clock moved, and is what getQueueStatus reports.
C8_Witness ==
    /\ Len(queuedMessages) = 1
    /\ queuedMessages[1].state = "queued"
    /\ queuedMessages[1].message = "and bump version"
    /\ queuedMessages[1].queuedAt > 0
    /\ getQueueStatus(queuedMessages[1].sessionId).message = "and bump version"

\* C9: no queued row of a session is consumed once the session's latest
\* execution ended failed, killed or dropped, and a transition of one of the
\* session's executions to failed, killed or dropped leaves the session with
\* no queued row.
C9_DiscardedNotConsumedOnFailure ==
    [][\A s \in 1..Len(sessions) :
          LET mine == { e \in 1..Len(executionProcesses) : executionProcesses[e].sessionId = s }
              latest == { e \in mine : \A f \in mine :
                            executionProcesses[f].startedAt <= executionProcesses[e].startedAt }
              endedBadly == /\ mine # {}
                            /\ \A e \in latest :
                                  executionProcesses[e].status \in {"failed", "killed", "dropped"}
          IN  /\ endedBadly =>
                    \A i \in 1..Len(queuedMessages) :
                        (queuedMessages[i].sessionId = s /\ queuedMessages[i].state = "queued")
                            => queuedMessages'[i].state # "consumed"
              /\ \A e \in mine, st \in {"failed", "killed", "dropped"}, m \in ErrorMessageInputs :
                    (executionProcesses[e].status # st /\ setExecutionStatus(e, st, m)) =>
                        \A i \in 1..Len(queuedMessages') :
                            ~(queuedMessages'[i].sessionId = s /\ queuedMessages'[i].state = "queued")]_vars

\* C10: every session that has a pending approval has status needs_attention.
C10_PendingApprovalNeedsAttention ==
    \A a \in 1..Len(approvals) :
        approvals[a].status = "pending" =>
            sessions[approvals[a].sessionId].status = "needs_attention"

\* C11: respondApproval on an approval that does not exist or is not pending
\* fails and leaves the approval, its session and its workspace as they were;
\* so no step changes an approval that is no longer pending: its recorded
\* response is written once and never overwritten.
C11_RespondOnlyPending ==
    [][/\ \A a \in 1..Len(approvals) :
             approvals[a].status # "pending" => approvals'[a] = approvals[a]
       /\ \A a \in 1..(Len(approvals) + 1), st \in ResponseInputs, by \in RespondedByInputs :
             ( /\ Exists(approvals, a) => approvals[a].status # "pending"
               /\ respondApproval(a, st, by) ) =>
                 UNCHANGED <<approvals, sessions, workspaces>>]_vars

\* C11 witness: an approval already answered, on a session that a later
\* request put back to needs_attention: a second answer to it would show.
C11_Witness ==
    \E a, b \in 1..Len(approvals) :
        /\ approvals[a].status = "approved"
        /\ approvals[a].respondedBy = Some("user")
        /\ approvals[b].status = "pending"
        /\ approvals[b].sessionId = approvals[a].sessionId
        /\ sessions[approvals[a].sessionId].status = "needs_attention"

\* C12: requestApproval appends exactly one approval, pending, for the given
\* workspace, session and execution, sets that session and that workspace to
\* needs_attention and changes no execution.
C12_RequestApprovalFrame ==
    [][\A w \in 1..Len(workspaces), s \in 1..Len(sessions), e \in 1..Len(executionProcesses) :
          \A k \in ApprovalKindInputs, p \in PromptInputs :
            requestApproval(w, s, e, k, p, Undefined) =>
              /\ Len(approvals') = Len(approvals) + 1
              /\ SubSeq(approvals', 1, Len(approvals)) = approvals
              /\ approvals'[Len(approvals')].status = "pending"
              /\ approvals'[Len(approvals')].workspaceId = w
              /\ approvals'[Len(approvals')].sessionId = s
              /\ approvals'[Len(approvals')].executionProcessId = e
              /\ sessions'[s].status = "needs_attention"
              /\ workspaces'[w].status = "needs_attention"
              /\ executionProcesses' = executionProcesses]_vars

\* C12 witness: a pending approval whose execution is still running while its
\* session and its workspace show needs_attention.
C12_Witness ==
    \E a \in 1..Len(approvals) :
        /\ approvals[a].status = "pending"
        /\ executionProcesses[approvals[a].executionProcessId].status = "running"
        /\ sessions[approvals[a].sessionId].status = "needs_attention"
        /\ workspaces[approvals[a].workspaceId].status = "needs_attention"

\* C13: no execution is completed while an approval that references it is
\* pending.
C13_NoCompletedWithPendingApproval ==
    \A a \in 1..Len(approvals) :
        approvals[a].status = "pending" =>
            executionProcesses[approvals[a].executionProcessId].status # "completed"

\* C14: for every execution and every enabled repository of its workspace:
\* when the execution is terminal a snapshot row of the pair exists with
\* beforeHeadCommit set, and when it is completed or failed the row has
\* afterHeadCommit set.
C14_TerminalHasSnapshots ==
    \A e \in 1..Len(executionProcesses), r \in 1..Len(workspaceRepos) :
        ( /\ workspaceRepos[r].workspaceId = executionProcesses[e].workspaceId
          /\ workspaceRepos[r].enabled ) =>
            /\ executionProcesses[e].status \in TerminalStatuses =>
                  \E i \in repoStateRows(e, r) :
                      executionProcessRepoStates[i].beforeHeadCommit # Undefined
            /\ executionProcesses[e].status \in {"completed", "failed"} =>
                  \E i \in repoStateRows(e, r) :
                      executionProcessRepoStates[i].afterHeadCommit # Undefined

\* C15: a step that writes a beforeHeadCommit does so while the row's
\* execution is not terminal, and a step that writes an afterHeadCommit does
\* so only once the row's execution is terminal.
C15_SnapshotOrdering ==
    [][\A i \in 1..Len(executionProcessRepoStates') :
          LET row == executionProcessRepoStates'[i]
              status == executionProcesses[row.executionProcessId].status
              beforeWas == IF i <= Len(executionProcessRepoStates)
                           THEN executionProcessRepoStates[i].beforeHeadCommit
                           ELSE Undefined
              afterWas == IF i <= Len(executionProcessRepoStates)
                          THEN executionProcessRepoStates[i].afterHeadCommit
                          ELSE Undefined
          IN  /\ row.beforeHeadCommit # beforeWas => status \notin TerminalStatuses
              /\ row.afterHeadCommit # afterWas => status \in TerminalStatuses]_vars

\* C16: every (execution, repository) pair has at most one snapshot row.
C16_OneRowPerPair ==
    \A i, j \in 1..Len(executionProcessRepoStates) :
        ( /\ executionProcessRepoStates[i].executionProcessId =
                executionProcessRepoStates[j].executionProcessId
          /\ executionProcessRepoStates[i].workspaceRepoId =
                executionProcessRepoStates[j].workspaceRepoId ) => i = j

\* C16 witness: two pairs with one row each, one of them written by at least
\* two calls (no single call supplies c2 together with c1).
C16_Witness ==
    /\ Len(executionProcessRepoStates) = 2
    /\ \E i \in 1..2 :
          /\ executionProcessRepoStates[i].beforeHeadCommit = Some("c2")
          /\ executionProcessRepoStates[i].afterHeadCommit = Some("c1")

\* C17: an upsertExecutionRepoState on a pair that has a row writes the
\* supplied fields, leaves each omitted field with the value it had, and
\* changes no other row.
C17_PartialUpdateKeepsFields ==
    [][\A e \in 1..Len(executionProcesses), r \in 1..Len(workspaceRepos) :
          \A in \in RepoStateInputs, i \in repoStateRows(e, r) :
            upsertExecutionRepoState(e, r, in.beforeHeadCommit, in.afterHeadCommit,
                                     in.repoState) =>
              LET old == executionProcessRepoStates[i]
                  new == executionProcessRepoStates'[i]
              IN  /\ Len(executionProcessRepoStates') = Len(executionProcessRepoStates)
                  /\ \A j \in 1..Len(executionProcessRepoStates) :
                        j # i => executionProcessRepoStates'[j] = executionProcessRepoStates[j]
                  /\ new.beforeHeadCommit =
                        IF in.beforeHeadCommit = Undefined THEN old.beforeHeadCommit
                        ELSE in.beforeHeadCommit
                  /\ new.afterHeadCommit =
                        IF in.afterHeadCommit = Undefined THEN old.afterHeadCommit
                        ELSE in.afterHeadCommit
                  /\ new.repoState =
                        IF in.repoState = Undefined THEN old.repoState
                        ELSE in.repoState
                  /\ new.executionProcessId = e
                  /\ new.workspaceRepoId = r]_vars

\* C17 witness: a row that holds the commit before the run from one call and
\* the commit and state after the run from another.
C17_Witness ==
    \E i \in 1..Len(executionProcessRepoStates) :
        /\ executionProcessRepoStates[i].beforeHeadCommit = Some("c0")
        /\ executionProcessRepoStates[i].afterHeadCommit = Some("c1")
        /\ executionProcessRepoStates[i].repoState = Some("dirty")

\* C18: when the pair's row already shows the result of a call (it exists and
\* holds every field the call supplies), the same call again leaves the table
\* of snapshot rows as it is: same rows, same contents.
C18_UpsertIdempotent ==
    [][\A e \in 1..Len(executionProcesses), r \in 1..Len(workspaceRepos) :
          \A in \in RepoStateInputs :
            LET afterFirstCall ==
                    \E i \in repoStateRows(e, r) :
                        LET row == executionProcessRepoStates[i]
                        IN  /\ in.beforeHeadCommit # Undefined =>
                                  row.beforeHeadCommit = in.beforeHeadCommit
                            /\ in.afterHeadCommit # Undefined =>
                                  row.afterHeadCommit = in.afterHeadCommit
                            /\ in.repoState # Undefined => row.repoState = in.repoState
            IN  ( /\ afterFirstCall
                  /\ upsertExecutionRepoState(e, r, in.beforeHeadCommit,
                                              in.afterHeadCommit, in.repoState) ) =>
                    executionProcessRepoStates' = executionProcessRepoStates]_vars

\* C18 witness: a row that shows the result of the call that supplies c2 on
\* top of an earlier snapshot after the run, beside a second pair's row.
C18_Witness ==
    \E i, j \in 1..Len(executionProcessRepoStates) :
        /\ i # j
        /\ executionProcessRepoStates[i].beforeHeadCommit = Some("c2")
        /\ executionProcessRepoStates[i].repoState = Some("dirty")
        /\ executionProcessRepoStates[j].afterHeadCommit = Undefined

\* C19: a createWorkspace with an empty repos list inserts nothing; otherwise
\* it inserts one workspace (idle, not archived, not pinned), one repository
\* row per input repository and one idle session, all of that workspace, and
\* the workspace points at that session and at the row of the first input.
C19_CreateWorkspaceAtomic ==
    [][\A repos \in WorkspaceReposInputs :
          createWorkspace("alice", "W3", "feat/z", repos) =>
            IF Len(repos) = 0
            THEN UNCHANGED <<workspaces, workspaceRepos, sessions>>
            ELSE LET w == Len(workspaces) + 1
                     s == Len(sessions) + 1
                 IN  /\ Len(workspaces') = w
                     /\ SubSeq(workspaces', 1, Len(workspaces)) = workspaces
                     /\ workspaces'[w].status = "idle"
                     /\ workspaces'[w].archived = FALSE
                     /\ workspaces'[w].pinned = FALSE
                     /\ Len(workspaceRepos') = Len(workspaceRepos) + Len(repos)
                     /\ SubSeq(workspaceRepos', 1, Len(workspaceRepos)) = workspaceRepos
                     /\ \A i \in 1..Len(repos) :
                           /\ workspaceRepos'[Len(workspaceRepos) + i].workspaceId = w
                           /\ workspaceRepos'[Len(workspaceRepos) + i].repoId = repos[i].repoId
                     /\ Len(sessions') = s
                     /\ SubSeq(sessions', 1, Len(sessions)) = sessions
                     /\ sessions'[s] = [workspaceId |-> w, status |-> "idle"]
                     /\ workspaces'[w].activeSessionId = Some(s)
                     /\ workspaces'[w].activeWorkspaceRepoId = Some(Len(workspaceRepos) + 1)]_vars

\* C19 witness: a third workspace created with two repositories, pointing at
\* its own session and at the first of its two repository rows.
C19_Witness ==
    /\ Len(workspaces) = 3
    /\ Len(workspaceRepos) = 4
    /\ workspaceRepos[3].workspaceId = 3
    /\ workspaceRepos[4].workspaceId = 3
    /\ ~workspaceRepos[4].enabled
    /\ sessions[3] = [workspaceId |-> 3, status |-> "idle"]
    /\ workspaces[3].activeSessionId = Some(3)
    /\ workspaces[3].activeWorkspaceRepoId = Some(3)

\* C20: a startExecution whose workspace and session both exist appends one
\* execution, running, with queuedFollowUpConsumed false, and leaves that
\* session and that workspace running; one whose workspace or session does
\* not exist inserts no execution and changes no status.
C20_StartExecutionEffect ==
    [][\A w \in 1..(Len(workspaces) + 1), s \in 1..(Len(sessions) + 1) :
          \A r \in RunReasonInputs :
            startExecution(w, s, r, Undefined) =>
              IF Exists(workspaces, w) /\ Exists(sessions, s)
              THEN LET e == Len(executionProcesses) + 1
                   IN  /\ Len(executionProcesses') = e
                       /\ SubSeq(executionProcesses', 1, Len(executionProcesses)) =
                             executionProcesses
                       /\ executionProcesses'[e].status = "running"
                       /\ executionProcesses'[e].queuedFollowUpConsumed = FALSE
                       /\ executionProcesses'[e].workspaceId = w
                       /\ executionProcesses'[e].sessionId = s
                       /\ sessions'[s].status = "running"
                       /\ workspaces'[w].status = "running"
              ELSE UNCHANGED <<executionProcesses, sessions, workspaces>>]_vars

\* C20 witness: a started execution, running and not marked, with its session
\* and its workspace running and the other session untouched.
C20_Witness ==
    \E e \in 1..Len(executionProcesses) :
        /\ executionProcesses[e].status = "running"
        /\ executionProcesses[e].queuedFollowUpConsumed = FALSE
        /\ executionProcesses[e].completedAt = Undefined
        /\ sessions[executionProcesses[e].sessionId].status = "running"
        /\ workspaces[executionProcesses[e].workspaceId].status = "running"
        /\ \E s \in 1..Len(sessions) : sessions[s].status = "idle"

\* C27: a consumeQueuedMessage that returns a message leaves the session with
\* nothing to deliver: getQueueStatus and the next consumeQueuedMessage both
\* return empty; and an empty queue stays empty until an enqueueFollowUp on
\* that session.  (Mutations are serialized transactions: of two
\* consumeQueuedMessage calls the second runs in the state the first left.)
C27_DeliveredAtMostOnce ==
    [][\A s \in 1..Len(sessions) :
          /\ (consumeQueuedMessageReturns(s).status = "consumed" /\ consumeQueuedMessage(s)) =>
                /\ getQueueStatus(s)' = [status |-> "empty"]
                /\ consumeQueuedMessageReturns(s)' = [status |-> "empty"]
          /\ (getQueueStatus(s).status = "empty" /\ getQueueStatus(s)'.status # "empty") =>
                \E in \in FollowUpInputs :
                    enqueueFollowUp(s, in.message, in.executor, in.variant,
                                    in.enqueueingProcessId)]_vars

\* C27 witness: a session whose only message was consumed, so that the
\* status query and a second consume find nothing.
C27_Witness ==
    \E s \in 1..Len(sessions) :
        /\ \E i \in 1..Len(queuedMessages) :
               queuedMessages[i].sessionId = s /\ queuedMessages[i].state = "consumed"
        /\ getQueueStatus(s) = [status |-> "empty"]
        /\ consumeQueuedMessageReturns(s) = [status |-> "empty"]

\* C28: a row that is consumed or discarded is never changed again, and an
\* enqueueFollowUp on a session with no queued row appends a row and touches
\* no existing one.
C28_FinishedRowsAreFinal ==
    [][/\ \A i \in 1..Len(queuedMessages) :
             queuedMessages[i].state \in {"consumed", "discarded"} =>
                 queuedMessages'[i] = queuedMessages[i]
       /\ \A s \in 1..Len(sessions), in \in FollowUpInputs :
             ( /\ \A i \in 1..Len(queuedMessages) :
                     queuedMessages[i].sessionId = s => queuedMessages[i].state # "queued"
               /\ enqueueFollowUp(s, in.message, in.executor, in.variant,
                                  in.enqueueingProcessId) ) =>
                 /\ Len(queuedMessages') = Len(queuedMessages) + 1
                 /\ SubSeq(queuedMessages', 1, Len(queuedMessages)) = queuedMessages
                 /\ queuedMessages'[Len(queuedMessages')].state = "queued"
                 /\ queuedMessages'[Len(queuedMessages')].sessionId = s]_vars

\* C28 witness: the first follow-up of a session consumed and kept as it was,
\* the second one queued in a row of its own.
C28_Witness ==
    /\ Len(queuedMessages) = 2
    /\ queuedMessages[1].sessionId = queuedMessages[2].sessionId
    /\ queuedMessages[1].state = "consumed"
    /\ queuedMessages[1].message = "also update README"
    /\ queuedMessages[2].state = "queued"
    /\ queuedMessages[2].message = "and bump version"

\* C30: a setExecutionStatus on execution e changes no other execution, no
\* session but e's, no workspace but e's, and no queued message, approval,
\* snapshot row or repository row.
C30_SetExecutionStatusFrame ==
    [][\A e \in 1..Len(executionProcesses) :
          LET st == executionProcesses'[e].status
              m == executionProcesses'[e].errorMessage
          IN  setExecutionStatus(e, st, m) =>
                /\ Len(executionProcesses') = Len(executionProcesses)
                /\ \A f \in 1..Len(executionProcesses) :
                      f # e => executionProcesses'[f] = executionProcesses[f]
                /\ Len(sessions') = Len(sessions)
                /\ \A s \in 1..Len(sessions) :
                      s # executionProcesses[e].sessionId => sessions'[s] = sessions[s]
                /\ Len(workspaces') = Len(workspaces)
                /\ \A w \in 1..Len(workspaces) :
                      w # executionProcesses[e].workspaceId => workspaces'[w] = workspaces[w]
                /\ UNCHANGED <<queuedMessages, approvals, executionProcessRepoStates,
                               workspaceRepos>>]_vars

\* C30 witness: one execution failed in workspace 1 on session 2, session 2
\* and workspace 1 showing it, while session 1 of workspace 1 still shows its
\* pending approval, the other execution still runs and the queued messages,
\* the approval and the snapshot row are in place.
C30_Witness ==
    /\ Len(executionProcesses) = 2
    /\ executionProcesses[1].status = "running"
    /\ executionProcesses[2].status = "failed"
    /\ executionProcesses[2].workspaceId = 1
    /\ executionProcesses[2].sessionId = 2
    /\ sessions[2].status = "needs_attention"
    /\ sessions[1].status = "needs_attention"
    /\ Len(queuedMessages) = 2
    /\ approvals[1].status = "pending"
    /\ Len(executionProcessRepoStates) = 1

\* C29: listExecutionProcessesBySession returns executions of the given
\* session only, each once and as stored whatever its status, greatest
\* startedAt first; without limit all of them, with limit n the n of them
\* with the greatest startedAt (all of them when there are fewer).
C29_ListingBySession ==
    \A s \in 1..Len(sessions), limit \in LimitInputs :
        LET result == listExecutionProcessesBySession(s, limit)
            mine == { e \in 1..Len(executionProcesses) : executionProcesses[e].sessionId = s }
            returned == { result[i].executionProcessId : i \in 1..Len(result) }
        IN  /\ returned \subseteq mine
            /\ Cardinality(returned) = Len(result)
            /\ \A i \in 1..Len(result) :
                  /\ result[i].sessionId = s
                  /\ result[i].status = executionProcesses[result[i].executionProcessId].status
                  /\ result[i].startedAt =
                        executionProcesses[result[i].executionProcessId].startedAt
            /\ \A i, j \in 1..Len(result) :
                  i < j => result[i].startedAt >= result[j].startedAt
            /\ limit = Undefined => returned = mine
            /\ limit # Undefined =>
                  /\ Len(result) = IF limit[1] < Cardinality(mine) THEN limit[1]
                                   ELSE Cardinality(mine)
                  /\ \A e \in mine \ returned, r \in returned :
                        executionProcesses[e].startedAt <= executionProcesses[r].startedAt

\* C29 witness: a session with an older dropped execution and a newer running
\* one: both are listed, the newer first, and limit 1 returns the newer only.
C29_Witness ==
    \E s \in 1..Len(sessions) :
        LET all == listExecutionProcessesBySession(s, Undefined)
            one == listExecutionProcessesBySession(s, Some(1))
        IN  /\ Len(all) = 2
            /\ all[1].startedAt > all[2].startedAt
            /\ all[1].status = "running"
            /\ all[2].status = "dropped"
            /\ one = <<all[1]>>

\* C22: after every step, an archived workspace is in no listing without the
\* archived argument or with archived = false, and is in its owner's listing
\* with archived = true; and an updateWorkspace that only sets archived back
\* to false puts the workspace in its owner's default listing with the name,
\* branch, pinned flag, active session and active repository it had.
C22_ArchiveIsSoftDelete ==
    [][/\ \A w \in 1..Len(workspaces'), owner \in OwnerInputs :
             workspaces'[w].archived =>
                /\ \A v \in listWorkspacesByOwner(owner, Undefined)' : v.workspaceId # w
                /\ \A v \in listWorkspacesByOwner(owner, Some(FALSE))' : v.workspaceId # w
                /\ owner = workspaces'[w].ownerUserId =>
                      \E v \in listWorkspacesByOwner(owner, Some(TRUE))' : v.workspaceId = w
       /\ \A w \in 1..Len(workspaces) :
             ( /\ workspaces[w].archived
               /\ updateWorkspace(w, Undefined, Some(FALSE), Undefined,
                                  Undefined, Undefined, Undefined) ) =>
                 \E v \in listWorkspacesByOwner(workspaces[w].ownerUserId, Undefined)' :
                     /\ v.workspaceId = w
                     /\ v.name = workspaces[w].name
                     /\ v.branch = workspaces[w].branch
                     /\ v.pinned = workspaces[w].pinned
                     /\ v.activeSessionId = workspaces[w].activeSessionId
                     /\ v.activeWorkspaceRepoId = workspaces[w].activeWorkspaceRepoId]_vars

\* C22 witness: a pinned workspace with two repositories, pointed at the
\* second, archived: it is missing from the owner's default listing, which
\* still shows the others, and present in the archived listing.
C22_Witness ==
    /\ Len(workspaces) = 3
    /\ workspaces[3].archived
    /\ workspaces[3].pinned
    /\ workspaces[3].activeWorkspaceRepoId = Some(4)
    /\ { v.workspaceId : v \in listWorkspacesByOwner("alice", Undefined) } = {1, 2}
    /\ { v.workspaceId : v \in listWorkspacesByOwner("alice", Some(TRUE)) } = {3}
    /\ listWorkspacesByOwner("bob", Some(TRUE)) = {}

\* C23: every approval that is pending with expiresAt earlier than the
\* current time is eventually expired, and an expired approval is never
\* approved or rejected afterwards.
C23_OverdueEventuallyExpired ==
    /\ \A a \in 1..MaxApprovals :
          (a <= Len(approvals) /\ overdue(approvals[a]))
             ~> (a <= Len(approvals) /\ approvals[a].status = "expired")
    /\ [][\A a \in 1..Len(approvals) :
            approvals[a].status = "expired" => approvals'[a].status = "expired"]_vars

C31_SetActiveWorkspaceRepoChecked ==
    [][\A w \in 1..(Len(workspaces) + 1), r \in 1..(Len(workspaceRepos) + 1) :
          setActiveWorkspaceRepo(w, r) =>
            IF /\ Exists(workspaces, w)
               /\ Exists(workspaceRepos, r)
               /\ workspaceRepos[r].workspaceId = w
            THEN workspaces'[w].activeWorkspaceRepoId = Some(r)
            ELSE UNCHANGED workspaces]_vars

\* C31 witness: the third workspace, created pointing at its first
\* repository row, moved to its second one, the others where they were.
C31_Witness ==
    /\ Len(workspaces) = 3
    /\ Len(workspaceRepos) = 4
    /\ workspaceRepos[4].workspaceId = 3
    /\ workspaces[3].activeWorkspaceRepoId = Some(4)
    /\ ~workspaces[3].archived
    /\ workspaces[1].activeWorkspaceRepoId = Some(1)
    /\ workspaces[2].activeWorkspaceRepoId = Some(2)

\* C32: in every state, the active session of a workspace, when set, is a
\* session of that workspace, and its active repository, when set, is a
\* repository row of that workspace.
C32_ActivePointersInWorkspace ==
    \A w \in 1..Len(workspaces) :
        /\ workspaces[w].activeSessionId # Undefined =>
              /\ Exists(sessions, workspaces[w].activeSessionId[1])
              /\ sessions[workspaces[w].activeSessionId[1]].workspaceId = w
        /\ workspaces[w].activeWorkspaceRepoId # Undefined =>
              /\ Exists(workspaceRepos, workspaces[w].activeWorkspaceRepoId[1])
              /\ workspaceRepos[workspaces[w].activeWorkspaceRepoId[1]].workspaceId = w

\* C33: in every state, the session of an execution is a session of the
\* execution's workspace.
C33_ExecutionSessionInWorkspace ==
    \A e \in 1..Len(executionProcesses) :
        sessions[executionProcesses[e].sessionId].workspaceId =
            executionProcesses[e].workspaceId

\* C34: in every state, an execution has a completedAt exactly when its
\* status is completed, failed, killed or dropped.
C34_CompletedAtIffTerminal ==
    \A e \in 1..Len(executionProcesses) :
        (executionProcesses[e].completedAt # Undefined)
            <=> terminal(executionProcesses[e].status)

\* C35: queuedFollowUpConsumed is false on a new execution, is never set
\* back to false, changes only in a markQueuedFollowUpConsumed of that
\* execution, and is kept by setExecutionStatus; markQueuedFollowUpConsumed
\* keeps the status of the execution and every session and workspace.
C35_QueuedFollowUpConsumedMonotonic ==
    [][/\ \A e \in 1..Len(executionProcesses') :
             IF e > Len(executionProcesses)
             THEN ~executionProcesses'[e].queuedFollowUpConsumed
             ELSE /\ executionProcesses[e].queuedFollowUpConsumed =>
                        executionProcesses'[e].queuedFollowUpConsumed
                  /\ executionProcesses'[e].queuedFollowUpConsumed #
                        executionProcesses[e].queuedFollowUpConsumed =>
                          markQueuedFollowUpConsumed(e)
       /\ \A e \in 1..Len(executionProcesses) :
             /\ setExecutionStatus(e, executionProcesses'[e].status,
                                   executionProcesses'[e].errorMessage) =>
                   executionProcesses'[e].queuedFollowUpConsumed =
                       executionProcesses[e].queuedFollowUpConsumed
             /\ markQueuedFollowUpConsumed(e) =>
                   /\ executionProcesses'[e].queuedFollowUpConsumed
                   /\ executionProcesses'[e].status = executionProcesses[e].status
                   /\ UNCHANGED <<sessions, workspaces>>]_vars

\* C35 witness: an execution dropped without a mark, its flag still false,
\* next to an execution marked while it runs, its session still running.
C35_Witness ==
    \E e, f \in 1..Len(executionProcesses) :
        /\ executionProcesses[e].status = "dropped"
        /\ ~executionProcesses[e].queuedFollowUpConsumed
        /\ executionProcesses[f].status = "running"
        /\ executionProcesses[f].queuedFollowUpConsumed
        /\ sessions[executionProcesses[f].sessionId].status = "running"

\* C36: a setExecutionStatus that passes no errorMessage leaves the
\* errorMessage stored on the execution as it was.
C36_ErrorMessageRetained ==
    [][\A e \in 1..Len(executionProcesses), st \in ExecutionStatus :
          ( /\ executionProcesses[e].errorMessage # Undefined
            /\ setExecutionStatus(e, st, Undefined) ) =>
              executionProcesses'[e].errorMessage = executionProcesses[e].errorMessage]_vars

\* C37: in every state, a workspace with an execution that is pending or
\* running, in any of its sessions, has the status running.
C37_BusyWorkspaceIsRunning ==
    \A w \in 1..Len(workspaces) :
        (\E e \in 1..Len(executionProcesses) :
            /\ executionProcesses[e].workspaceId = w
            /\ executionProcesses[e].status \in {"pending", "running"})
          => workspaces[w].status = "running"

\* C38: an updateWorkspace leaves every field it was not given as it was and
\* sets every field it was given, on the given workspace only; it changes
\* no session, repository row, execution, snapshot, approval or queued
\* message; on a workspace that does not exist it changes nothing.
C38_UpdateWorkspaceFrame ==
    [][\A w \in 1..(Len(workspaces) + 1), a \in UpdateWorkspaceInputs :
          updateWorkspace(w, a[1], a[2], a[3], a[4], a[5], a[6]) =>
              IF ~Exists(workspaces, w)
              THEN UNCHANGED vars
              ELSE
              /\ Len(workspaces') = Len(workspaces)
              /\ \A v \in 1..Len(workspaces) : v # w => workspaces'[v] = workspaces[v]
              /\ workspaces'[w].ownerUserId = workspaces[w].ownerUserId
              /\ workspaces'[w].branch = workspaces[w].branch
              /\ workspaces'[w].name =
                    IF a[1] = Undefined THEN workspaces[w].name ELSE a[1][1]
              /\ workspaces'[w].archived =
                    IF a[2] = Undefined THEN workspaces[w].archived ELSE a[2][1]
              /\ workspaces'[w].pinned =
                    IF a[3] = Undefined THEN workspaces[w].pinned ELSE a[3][1]
              /\ workspaces'[w].status =
                    IF a[4] = Undefined THEN workspaces[w].status ELSE a[4][1]
              /\ workspaces'[w].activeSessionId =
                    IF a[5] = Undefined THEN workspaces[w].activeSessionId ELSE a[5]
              /\ workspaces'[w].activeWorkspaceRepoId =
                    IF a[6] = Undefined THEN workspaces[w].activeWorkspaceRepoId ELSE a[6]
              /\ UNCHANGED <<sessions, workspaceRepos, executionProcesses,
                             executionProcessRepoStates, approvals, queuedMessages>>]_vars

\* C38 witness: workspace 1 renamed and archived, its status, pin and
\* pointers as before, next to its running execution, its pending approval
\* and the untouched workspace 2.
C38_Witness ==
    /\ workspaces[1].name = "renamed"
    /\ workspaces[1].archived
    /\ ~workspaces[1].pinned
    /\ workspaces[1].status = "needs_attention"
    /\ workspaces[1].activeSessionId = Some(1)
    /\ workspaces[1].activeWorkspaceRepoId = Some(1)
    /\ workspaces[2] = SeedWorkspaces[2]
    /\ executionProcesses[1].status = "running"
    /\ approvals[1].status = "pending"
    /\ sessions[1].status = "needs_attention"

====
